---- MODULE Spec2Model ----
(***************************************************************************)
(* Lighthouse assurance contracts: the pledge-aggregation and              *)
(* contract-combination engine of package core (Project, Pledge,           *)
(* Contract).  Amounts are satoshis.  A run fixes one project and one set  *)
(* of pledge requests the contributors may issue (a "world"), then lets    *)
(* callers create, sign, serialize/load, add, remove and combine pledges   *)
(* in any order.                                                           *)
(***************************************************************************)
EXTENDS Integers, Sequences, FiniteSets, TLC

VARIABLES project, offers, pledges, combined, held, ret, mutex, calls

vars == <<project, offers, pledges, combined, held, ret, mutex, calls>>

\* ------------------------------------------------------------------------
\* Bounds
\* ------------------------------------------------------------------------
\* Largest number of private keys a caller hands to Pledge.Sign.
MaxKeys == 2

\* Number of callers that share one contract.
NumCallers == 2

\* ------------------------------------------------------------------------
\* Program constants
\* ------------------------------------------------------------------------
DefaultMinPledgeAmount == 10000
ProjectVersion == 1

\* the absent value (a nil pointer)
Nil == [nil |-> TRUE]

\* transaction input sequence number given by the SDK to a new input
DefaultSequence == "ffffffff"

ValidAddress == "1NKNazRR5jKgGqELVHDK47JAZrqtAWWy5q"
OtherAddress == "1BoatSLRHtKNngkdXEeobR76b53LETtpyT"
Addresses == {ValidAddress, OtherAddress}

\* ------------------------------------------------------------------------
\* Arithmetic helpers
\* ------------------------------------------------------------------------
RECURSIVE GCD(_, _)
GCD(a, b) == IF b = 0 THEN a ELSE GCD(b, a % b)

\* a rational number in lowest terms (den = 0: the quotient is not finite)
Reduce(n, d) ==
  IF d = 0 THEN [num |-> IF n = 0 THEN 0 ELSE 1, den |-> 0]
  ELSE IF n = 0 THEN [num |-> 0, den |-> 1]
  ELSE [num |-> n \div GCD(n, d), den |-> d \div GCD(n, d)]

RECURSIVE SumSeq(_)
SumSeq(s) == IF Len(s) = 0 THEN 0 ELSE Head(s) + SumSeq(Tail(s))

RECURSIVE Concat(_)
Concat(ss) == IF Len(ss) = 0 THEN <<>> ELSE Head(ss) \o Concat(Tail(ss))

\* a removal that also drops everything after the removed element
RemoveAtTruncating(s, i) == SubSeq(s, 1, i - 1)

\* a removal that is off by one and drops the element after the i-th
RemoveAtNext(s, i) == SubSeq(s, 1, i) \o SubSeq(s, i + 2, Len(s))

\* append(s[:i], s[i+1:]...)
RemoveAt(s, i) == SubSeq(s, 1, i - 1) \o SubSeq(s, i + 1, Len(s))

\* ------------------------------------------------------------------------
\* Errors (the error values the operations return)
\* ------------------------------------------------------------------------
\* kind: the message; a, b: the numbers it carries; cause: the wrapped error
NoError == [kind |-> "nil", a |-> 0, b |-> 0, cause |-> ""]
Error(kind, a, b) == [kind |-> kind, a |-> a, b |-> b, cause |-> ""]
Wrap(kind, e) == [kind |-> kind, a |-> e.a, b |-> e.b, cause |-> e.kind]

\* ------------------------------------------------------------------------
\* PersistenceFormat: proto3 encoding of the Project and Pledge messages.
\* A message is encoded as the sequence of its present fields
\* <<field number, value>> in field order; a scalar field holding its
\* default value ("" , 0, empty bytes) is not written, a message field is
\* written when it is set.
\* ------------------------------------------------------------------------
Field(no, v, default) == IF v = default THEN <<>> ELSE << <<no, v>> >>

HasField(data, no) == \E i \in 1..Len(data) : data[i][1] = no

GetField(data, no, default) ==
  IF HasField(data, no)
  THEN data[CHOOSE i \in 1..Len(data) : data[i][1] = no][2]
  ELSE default

MarshalOutput(o) == Field(1, o.Amount, 0) \o Field(2, o.Script, <<>>)

UnmarshalOutput(d) ==
  [Amount |-> GetField(d, 1, 0), Script |-> GetField(d, 2, <<>>)]

MarshalDetails(d) ==
     Field(1, d.Network, "")
  \o Field(2, [i \in 1..Len(d.Outputs) |-> MarshalOutput(d.Outputs[i])], <<>>)
  \o Field(3, d.Time, 0)
  \o Field(5, d.Memo, "")

UnmarshalDetails(d) ==
  [Network |-> GetField(d, 1, ""),
   Outputs |-> LET os == GetField(d, 2, <<>>)
               IN [i \in 1..Len(os) |-> UnmarshalOutput(os[i])],
   Time    |-> GetField(d, 3, 0),
   Memo    |-> GetField(d, 5, "")]

MarshalExtra(e) ==
     Field(1, e.Title, "")
  \o Field(2, e.CoverImage, <<>>)
  \o Field(3, e.AuthKey, <<>>)
  \o Field(4, e.MinPledgeAmount, 0)

UnmarshalExtra(d) ==
  [Title           |-> GetField(d, 1, ""),
   CoverImage      |-> GetField(d, 2, <<>>),
   AuthKey         |-> GetField(d, 3, <<>>),
   MinPledgeAmount |-> GetField(d, 4, 0)]

MarshalProject(pb) ==
     Field(1, pb.Version, 0)
  \o (IF pb.Details = Nil THEN <<>> ELSE << <<2, MarshalDetails(pb.Details)>> >>)
  \o (IF pb.Extra = Nil THEN <<>> ELSE << <<3, MarshalExtra(pb.Extra)>> >>)

UnmarshalProject(data) ==
  [Version |-> GetField(data, 1, 0),
   Details |-> IF HasField(data, 2)
               THEN UnmarshalDetails(GetField(data, 2, <<>>)) ELSE Nil,
   Extra   |-> IF HasField(data, 3)
               THEN UnmarshalExtra(GetField(data, 3, <<>>)) ELSE Nil]

MarshalInput(in) ==
     Field(1, in.TxHash, 0)
  \o Field(2, in.OutputIndex, 0)
  \o Field(3, in.UnlockScript, "")
  \o Field(4, in.Sequence, "")

UnmarshalInput(d) ==
  [TxHash       |-> GetField(d, 1, 0),
   OutputIndex  |-> GetField(d, 2, 0),
   UnlockScript |-> GetField(d, 3, ""),
   Sequence     |-> GetField(d, 4, "")]

MarshalContact(c) == Field(1, c.Name, "") \o Field(2, c.Email, "")

UnmarshalContact(d) == [Name |-> GetField(d, 1, ""), Email |-> GetField(d, 2, "")]

MarshalPledge(pb) ==
     Field(1, pb.ProjectId, <<>>)
  \o Field(2, [i \in 1..Len(pb.Inputs) |-> MarshalInput(pb.Inputs[i])], <<>>)
  \o (IF pb.Contact = Nil THEN <<>> ELSE << <<3, MarshalContact(pb.Contact)>> >>)
  \o Field(4, pb.Memo, "")
  \o Field(5, pb.Time, 0)
  \o Field(6, pb.RefundAddress, "")

UnmarshalPledge(data) ==
  [ProjectId     |-> GetField(data, 1, <<>>),
   Inputs        |-> LET is == GetField(data, 2, <<>>)
                     IN [i \in 1..Len(is) |-> UnmarshalInput(is[i])],
   Contact       |-> IF HasField(data, 3)
                     THEN UnmarshalContact(GetField(data, 3, <<>>)) ELSE Nil,
   Memo          |-> GetField(data, 4, ""),
   Time          |-> GetField(data, 5, 0),
   RefundAddress |-> GetField(data, 6, "")]

\* sha256 + hex: an injective digest of the serialized bytes
Sha256Hex(data) == <<"sha256", data>>

\* ------------------------------------------------------------------------
\* SigningLedger collaborators
\* ------------------------------------------------------------------------
\* a decoder that accepts every string
AddressDecodesAnything(address) == TRUE

\* script.NewAddressFromString succeeds on a well-formed address only
AddressDecodes(address) == address \in Addresses

\* p2pkh.Lock: the locking script paying to an address
P2PKHLock(address) == <<"p2pkh", address>>

\* the unlocking script produced by a successful unlocker.Sign
SigScript == "sig"

\* chainhash.NewHash accepts exactly 32 bytes; transaction ids are modelled
\* as positive numbers, 0 is the empty byte string
HashDecodes(txHash) == txHash > 0

\* ------------------------------------------------------------------------
\* Project (core/project.go)
\* ------------------------------------------------------------------------
ProjectSerialize(p) == MarshalProject(p.pb)

ProjectCalculateID(p) == Sha256Hex(ProjectSerialize(p))

NewProject(title, description, goalAmount, address, now) ==
  IF title = "" \/ description = ""
  THEN [err |-> Error("title and description are required", 0, 0), val |-> Nil]
  ELSE IF goalAmount = 0
  THEN [err |-> Error("goal amount must be greater than 0", 0, 0), val |-> Nil]
  ELSE IF ~AddressDecodes(address)
  THEN [err |-> Error("invalid address", 0, 0), val |-> Nil]
  ELSE LET proj == [Version |-> ProjectVersion,
                    Details |-> [Network |-> "mainnet",
                                 Outputs |-> << [Amount |-> goalAmount,
                                                 Script |-> P2PKHLock(address)] >>,
                                 Time    |-> now,
                                 Memo    |-> description],
                    Extra   |-> [Title           |-> title,
                                 CoverImage      |-> <<>>,
                                 AuthKey         |-> <<>>,
                                 MinPledgeAmount |-> DefaultMinPledgeAmount]]
           p == [pb |-> proj, goalAmount |-> goalAmount]
       IN [err |-> NoError,
           val |-> [pb |-> proj, goalAmount |-> goalAmount,
                    id |-> ProjectCalculateID(p)]]

\* proto.Unmarshal fails on bytes that are not a sequence of complete
\* fields: a field key without its value (truncated input), field number 0
WellFormed(data) ==
  \A i \in 1..Len(data) : Len(data[i]) = 2 /\ data[i][1] > 0

\* a loader that forgets to sum the payout outputs
LoadProjectWithoutGoal(data) ==
  LET proj == UnmarshalProject(data)
      p == [pb |-> proj, goalAmount |-> 0]
  IN IF ~WellFormed(data)
     THEN [err |-> Error("failed to unmarshal project", 0, 0), val |-> Nil]
     ELSE IF proj.Details = Nil
     THEN [err |-> Error("nil pointer dereference", 0, 0), val |-> Nil]
     ELSE [err |-> NoError,
           val |-> [pb |-> proj, goalAmount |-> 0, id |-> ProjectCalculateID(p)]]

\* LoadProject; on a message without a details section the read of
\* proj.Details.Outputs dereferences a nil pointer and the call panics
LoadProject(data) ==
  LET proj == UnmarshalProject(data)
      goal == SumSeq([i \in 1..Len(proj.Details.Outputs) |->
                        proj.Details.Outputs[i].Amount])
      p == [pb |-> proj, goalAmount |-> goal]
  IN IF ~WellFormed(data)
     THEN [err |-> Error("failed to unmarshal project", 0, 0), val |-> Nil]
     ELSE IF proj.Details = Nil
     THEN [err |-> Error("nil pointer dereference", 0, 0), val |-> Nil]
     ELSE [err |-> NoError,
           val |-> [pb |-> proj, goalAmount |-> goal, id |-> ProjectCalculateID(p)]]

\* Project.Title
Title(p) == IF p.pb.Extra # Nil THEN p.pb.Extra.Title ELSE ""

\* Project.Description
Description(p) == IF p.pb.Details # Nil THEN p.pb.Details.Memo ELSE ""

GoalAmount(p) == p.goalAmount

MinPledgeAmount(p) ==
  IF p.pb.Extra # Nil /\ p.pb.Extra.MinPledgeAmount > 0
  THEN p.pb.Extra.MinPledgeAmount
  ELSE DefaultMinPledgeAmount

\* Project.Outputs: fresh transaction outputs, one per payout output
ProjectOutputs(p) ==
  IF p.pb.Details = Nil
  THEN [err |-> Error("project has no details", 0, 0), val |-> <<>>]
  ELSE [err |-> NoError,
        val |-> [i \in 1..Len(p.pb.Details.Outputs) |->
                   [Satoshis      |-> p.pb.Details.Outputs[i].Amount,
                    LockingScript |-> p.pb.Details.Outputs[i].Script]]]

\* &pb.ProjectExtraDetails{}
EmptyExtra == [Title |-> "", CoverImage |-> <<>>, AuthKey |-> <<>>, MinPledgeAmount |-> 0]

SetAuthKey(p, pubKey) ==
  LET extra == IF p.pb.Extra = Nil THEN EmptyExtra ELSE p.pb.Extra
      q == [p EXCEPT !.pb.Extra = [extra EXCEPT !.AuthKey = pubKey]]
  IN [q EXCEPT !.id = ProjectCalculateID(q)]

\* a JPEG test that looks at the first two bytes only
IsJPEGTwoBytes(imageData) ==
  imageData[1] = 255 /\ imageData[2] = 216

\* image data are sequences of bytes
IsJPEG(imageData) ==
  imageData[1] = 255 /\ imageData[2] = 216 /\ imageData[3] = 255

IsPNG(imageData) ==
  imageData[1] = 137 /\ imageData[2] = 80 /\ imageData[3] = 78 /\ imageData[4] = 71

SetCoverImage(p, imageData) ==
  IF Len(imageData) < 4
  THEN [err |-> Error("invalid image data", 0, 0), val |-> p]
  ELSE IF ~IsJPEG(imageData) /\ ~IsPNG(imageData)
  THEN [err |-> Error("image must be JPEG or PNG format", 0, 0), val |-> p]
  ELSE LET extra == IF p.pb.Extra = Nil THEN EmptyExtra ELSE p.pb.Extra
           q == [p EXCEPT !.pb.Extra = [extra EXCEPT !.CoverImage = imageData]]
       IN [err |-> NoError, val |-> [q EXCEPT !.id = ProjectCalculateID(q)]]

\* ------------------------------------------------------------------------
\* Pledge (core/pledge.go)
\* A pledge object is [pb, id, amount, tx, origin]; origin is a history
\* field recording which constructor built the object.
\* ------------------------------------------------------------------------
PledgeSerialize(p) == MarshalPledge(p.pb)

PledgeCalculateID(p) == Sha256Hex(PledgeSerialize(p))

PledgeID(p) == p.id

Amount(p) == p.amount

ProjectID(p) == p.pb.ProjectId

\* a total that counts the first utxo only
TotalInputFirstOnly(utxos, amount, acc) ==
  IF Len(utxos) = 0 THEN acc ELSE acc + Head(utxos).Satoshis

\* the running total of NewPledge's loop: it stops at the first utxo at
\* which the total reaches amount
RECURSIVE TotalInput(_, _, _)
TotalInput(utxos, amount, acc) ==
  IF Len(utxos) = 0 THEN acc
  ELSE IF acc + Head(utxos).Satoshis >= amount
       THEN acc + Head(utxos).Satoshis
       ELSE TotalInput(Tail(utxos), amount, acc + Head(utxos).Satoshis)

\* tx.AddInputsFromUTXOs: one input per utxo handed in, in order
InputsFromUTXOs(utxos) ==
  [i \in 1..Len(utxos) |->
     [SourceTXID       |-> utxos[i].TxID,
      SourceTxOutIndex |-> utxos[i].Vout,
      SourceSatoshis   |-> utxos[i].Satoshis,
      UnlockingScript  |-> "",
      SequenceNumber   |-> DefaultSequence]]

\* float64 arithmetic (IEEE 754 binary64, round to nearest, ties to even).
\* A positive float64 is [m, e]: m the bits of its significand, most
\* significant first (m[1] = 1, Len(m) = MantissaBits), e the exponent of
\* the weight of its last bit, so its value is BitsToInt(m) * 2^e.
MantissaBits == 53

Float64Zero == [m |-> <<>>, e |-> 0]

\* the binary digits of n, most significant first
RECURSIVE Bin(_)
Bin(n) == IF n = 0 THEN <<>> ELSE Append(Bin(n \div 2), n % 2)

RECURSIVE BitsToInt(_)
BitsToInt(bits) ==
  IF bits = <<>> THEN 0
  ELSE 2 * BitsToInt(SubSeq(bits, 1, Len(bits) - 1)) + bits[Len(bits)]

\* bits + 1
Increment(bits) ==
  IF \A i \in 1..Len(bits) : bits[i] = 1
  THEN <<1>> \o [i \in 1..Len(bits) |-> 0]
  ELSE LET k == CHOOSE i \in 1..Len(bits) :
                  bits[i] = 0 /\ \A j \in (i + 1)..Len(bits) : bits[j] = 1
       IN [i \in 1..Len(bits) |-> IF i < k THEN bits[i] ELSE IF i = k THEN 1 ELSE 0]

\* the float64 nearest to (BitsToInt(bits) + s) * 2^e, where 0 <= s < 1 and
\* sticky tells whether s > 0
Float64Round(bits, e, sticky) ==
  IF Len(bits) <= MantissaBits
  THEN [m |-> bits \o [i \in 1..(MantissaBits - Len(bits)) |-> 0],
        e |-> e - (MantissaBits - Len(bits))]
  ELSE LET d == Len(bits) - MantissaBits
           keep == SubSeq(bits, 1, MantissaBits)
           guard == bits[MantissaBits + 1]
           rest == sticky \/ \E i \in (MantissaBits + 2)..Len(bits) : bits[i] = 1
           up == guard = 1 /\ (rest \/ keep[MantissaBits] = 1)
           r == IF up THEN Increment(keep) ELSE keep
       IN IF Len(r) > MantissaBits
          THEN [m |-> SubSeq(r, 1, MantissaBits), e |-> e + d + 1]
          ELSE [m |-> r, e |-> e + d]

\* long division: the first MantissaBits + 1 significant bits of the
\* quotient whose digits so far are bits and whose remainder is rem
RECURSIVE QuotientBits(_, _, _, _)
QuotientBits(rem, g, bits, e) ==
  IF Len(bits) > MantissaBits
  THEN [bits |-> bits, e |-> e, sticky |-> rem > 0]
  ELSE LET d == IF 2 * rem >= g THEN 1 ELSE 0
       IN QuotientBits(2 * rem - d * g, g,
                       IF bits = <<>> /\ d = 0 THEN <<>> ELSE Append(bits, d),
                       e - 1)

\* float64(a) / float64(g) for integers a >= 0 and g > 0 (the conversions
\* of integers below 2^53 are exact)
Float64Div(a, g) ==
  IF a = 0 THEN Float64Zero
  ELSE LET q == QuotientBits(a % g, g, Bin(a \div g), 0)
       IN Float64Round(q.bits, q.e, q.sticky)

\* the binary digits of BitsToInt(bits[1..i]) * n + carry, followed by acc
RECURSIVE MulBits(_, _, _, _, _)
MulBits(bits, i, n, carry, acc) ==
  IF i = 0 THEN Bin(carry) \o acc
  ELSE MulBits(bits, i - 1, n, (bits[i] * n + carry) \div 2,
               <<(bits[i] * n + carry) % 2>> \o acc)

\* float64(n) * f for an integer n >= 0
Float64Mul(n, f) ==
  IF n = 0 \/ f = Float64Zero THEN Float64Zero
  ELSE Float64Round(MulBits(f.m, Len(f.m), n, 0, <<>>), f.e, FALSE)

\* uint64(f): the fraction is discarded
Float64ToUint64(f) ==
  IF f = Float64Zero THEN 0
  ELSE IF f.e >= 0 THEN BitsToInt(f.m \o [i \in 1..f.e |-> 0])
  ELSE IF Len(f.m) + f.e <= 0 THEN 0
  ELSE BitsToInt(SubSeq(f.m, 1, Len(f.m) + f.e))

\* pledgeRatio := float64(amount) / float64(project.GoalAmount())
PledgeRatio(amount, goal) == Float64Div(amount, goal)

\* uint64(float64(out.Satoshis) * pledgeRatio)
ScaleOutput(satoshis, pledgeRatio) ==
  Float64ToUint64(Float64Mul(satoshis, pledgeRatio))

NewPledge(proj, amount, utxos, now) ==
  IF amount < MinPledgeAmount(proj)
  THEN [err |-> Error("less than minimum", amount, MinPledgeAmount(proj)),
        val |-> Nil]
  ELSE IF TotalInput(utxos, amount, 0) < amount
  THEN [err |-> Error("insufficient funds", TotalInput(utxos, amount, 0), amount),
        val |-> Nil]
  ELSE IF ProjectOutputs(proj).err # NoError
  THEN [err |-> ProjectOutputs(proj).err, val |-> Nil]
  ELSE LET outs == ProjectOutputs(proj).val
           pledgeRatio == PledgeRatio(amount, GoalAmount(proj))
           tx == [Inputs  |-> InputsFromUTXOs(utxos),
                  Outputs |-> [i \in 1..Len(outs) |->
                                 [Satoshis      |-> ScaleOutput(outs[i].Satoshis,
                                                                pledgeRatio),
                                  LockingScript |-> outs[i].LockingScript]]]
           pledge == [ProjectId     |-> proj.id,
                      Inputs        |-> [i \in 1..Len(tx.Inputs) |->
                                           [TxHash       |-> tx.Inputs[i].SourceTXID,
                                            OutputIndex  |-> tx.Inputs[i].SourceTxOutIndex,
                                            UnlockScript |-> "",
                                            Sequence     |-> tx.Inputs[i].SequenceNumber]],
                      Contact       |-> Nil,
                      Memo          |-> "",
                      Time          |-> now,
                      RefundAddress |-> ""]
           p == [pb |-> pledge, amount |-> amount, tx |-> tx]
       IN [err |-> NoError,
           val |-> [pb |-> pledge, id |-> PledgeCalculateID(p), amount |-> amount,
                    tx |-> tx, origin |-> "NewPledge"]]

\* Pledge.Sign with nKeys private keys; the signing primitive fails on the
\* key at index badKey (0: on none).  Inputs before the failing one keep
\* their new unlocking script.
SignedPrefixIgnoringKeys(p, nKeys, badKey) == Len(p.tx.Inputs)

SignedPrefix(p, nKeys, badKey) ==
  LET n == Len(p.tx.Inputs)
      stop == IF badKey > 0 /\ badKey <= nKeys THEN badKey - 1 ELSE nKeys
  IN IF stop < n THEN stop ELSE n

Sign(p, nKeys, badKey) ==
  LET n == Len(p.tx.Inputs)
      m == SignedPrefix(p, nKeys, badKey)
      q == [p EXCEPT
              !.tx.Inputs = [i \in 1..n |->
                 IF i <= m THEN [p.tx.Inputs[i] EXCEPT !.UnlockingScript = SigScript]
                 ELSE p.tx.Inputs[i]],
              !.pb.Inputs = [i \in 1..n |->
                 IF i <= m THEN [p.pb.Inputs[i] EXCEPT !.UnlockScript = SigScript]
                 ELSE p.pb.Inputs[i]]]
  IN IF m = n THEN [err |-> NoError, val |-> q]
     ELSE IF m + 1 > nKeys
          THEN [err |-> Error("no private key for input", m, 0), val |-> q]
          ELSE [err |-> Error("failed to sign input", m, 0), val |-> q]

LoadPledge(data) ==
  LET pledge == UnmarshalPledge(data)
      tx == [Inputs  |-> [i \in 1..Len(pledge.Inputs) |->
                            [SourceTXID       |-> pledge.Inputs[i].TxHash,
                             SourceTxOutIndex |-> pledge.Inputs[i].OutputIndex,
                             SourceSatoshis   |-> 0,
                             UnlockingScript  |-> pledge.Inputs[i].UnlockScript,
                             SequenceNumber   |-> pledge.Inputs[i].Sequence]],
             Outputs |-> <<>>]
      amount == 0
      p == [pb |-> pledge, amount |-> amount, tx |-> tx]
  IN IF \E i \in 1..Len(pledge.Inputs) : ~HashDecodes(pledge.Inputs[i].TxHash)
     THEN [err |-> Error("invalid transaction hash", 0, 0), val |-> Nil]
     ELSE [err |-> NoError,
           val |-> [pb |-> pledge, id |-> PledgeCalculateID(p), amount |-> amount,
                    tx |-> tx, origin |-> "LoadPledge"]]

\* a validation that does not look at the outputs
ValidateInputsOnly(p) ==
  IF Len(p.tx.Inputs) = 0 THEN Error("no inputs", 0, 0)
  ELSE IF \E i \in 1..Len(p.tx.Inputs) : p.tx.Inputs[i].UnlockingScript = ""
  THEN Error("input is not signed",
             (CHOOSE i \in 1..Len(p.tx.Inputs) :
                /\ p.tx.Inputs[i].UnlockingScript = ""
                /\ \A j \in 1..(i - 1) : p.tx.Inputs[j].UnlockingScript # "") - 1,
             0)
  ELSE NoError

Validate(p) ==
  IF Len(p.tx.Inputs) = 0 THEN Error("no inputs", 0, 0)
  ELSE IF Len(p.tx.Outputs) = 0 THEN Error("no outputs", 0, 0)
  ELSE IF \E i \in 1..Len(p.tx.Inputs) : p.tx.Inputs[i].UnlockingScript = ""
  THEN Error("input is not signed",
             (CHOOSE i \in 1..Len(p.tx.Inputs) :
                /\ p.tx.Inputs[i].UnlockingScript = ""
                /\ \A j \in 1..(i - 1) : p.tx.Inputs[j].UnlockingScript # "") - 1,
             0)
  ELSE NoError

SetMemo(p, memo) ==
  LET q == [p EXCEPT !.pb.Memo = memo]
  IN [q EXCEPT !.id = PledgeCalculateID(q)]

SetRefundAddress(p, address) ==
  LET q == [p EXCEPT !.pb.RefundAddress = address]
  IN [q EXCEPT !.id = PledgeCalculateID(q)]

SetContactInfo(p, name, email) ==
  LET q == [p EXCEPT !.pb.Contact = [Name |-> name, Email |-> email]]
  IN [q EXCEPT !.id = PledgeCalculateID(q)]

\* ------------------------------------------------------------------------
\* Contract (core/contract.go).  The contract is the pair (pledges,
\* combined) for the fixed project; pledges holds the accepted pledge
\* objects in insertion order.
\* ------------------------------------------------------------------------
\* fmt.Sprintf("%x:%d", SourceTXID, SourceTxOutIndex)
InputKey(in) == <<in.SourceTXID, in.SourceTxOutIndex>>

InputKeys(p) == {InputKey(p.tx.Inputs[i]) : i \in 1..Len(p.tx.Inputs)}

\* a duplicate check that looks at the first input of the new pledge only
hasDuplicateInputsFirstOnly(p1, p2) ==
  Len(p2.tx.Inputs) > 0 /\ InputKey(p2.tx.Inputs[1]) \in InputKeys(p1)

hasDuplicateInputs(p1, p2) ==
  \E i \in 1..Len(p2.tx.Inputs) : InputKey(p2.tx.Inputs[i]) \in InputKeys(p1)

TotalPledgedOf(ps) == SumSeq([i \in 1..Len(ps) |-> Amount(ps[i])])

TotalPledged == TotalPledgedOf(pledges)

\* a progress computed with an integer division
ProgressIntegerDivision ==
  Reduce((TotalPledged \div GoalAmount(project)) * 100, 1)

\* float64(TotalPledged) / float64(GoalAmount) * 100 as an exact rational:
\* the division first, then the multiplication
Progress ==
  LET q == Reduce(TotalPledged, GoalAmount(project))
  IN Reduce(q.num * 100, q.den)

\* a goal test against the first payout output instead of the goal
CanClaimFirstOutput ==
  TotalPledged >= project.pb.Details.Outputs[1].Amount

CanClaim == TotalPledged >= GoalAmount(project)

\* an AddPledge that validates the pledge before it looks at its project
AddPledgeErrorValidateFirst(p) ==
  IF Validate(p) # NoError
  THEN Wrap("invalid pledge", Validate(p))
  ELSE IF ProjectID(p) # project.id
  THEN Error("pledge is for different project", 0, 0)
  ELSE IF \E i \in 1..Len(pledges) : hasDuplicateInputs(pledges[i], p)
  THEN Error("pledge uses same inputs as existing pledge", 0, 0)
  ELSE NoError

\* the error AddPledge returns for pledge p, NoError when it accepts p
AddPledgeError(p) ==
  IF ProjectID(p) # project.id
  THEN Error("pledge is for different project", 0, 0)
  ELSE IF Validate(p) # NoError
  THEN Wrap("invalid pledge", Validate(p))
  ELSE IF \E i \in 1..Len(pledges) : hasDuplicateInputs(pledges[i], p)
  THEN Error("pledge uses same inputs as existing pledge", 0, 0)
  ELSE NoError

\* a combination that takes over the pledges' own scaled outputs
CombinedTxPledgeOutputs ==
  [Inputs  |-> Concat([i \in 1..Len(pledges) |-> pledges[i].tx.Inputs]),
   Outputs |-> Concat([i \in 1..Len(pledges) |-> pledges[i].tx.Outputs])]

\* a Combine that goes on from the cached transaction instead of a new one
CombinedTxOnCache ==
  LET before == IF combined = Nil THEN <<>> ELSE combined.Inputs
      inputs == Concat([i \in 1..Len(pledges) |-> pledges[i].tx.Inputs])
      inputValue == SumSeq([i \in 1..Len(pledges) |-> Amount(pledges[i])])
      outputs == IF combined = Nil THEN ProjectOutputs(project).val
                 ELSE combined.Outputs
      payouts == ProjectOutputs(project).val
      outputValue == SumSeq([i \in 1..Len(payouts) |-> payouts[i].Satoshis])
      change == inputValue - outputValue
  IN [Inputs  |-> before \o inputs,
      Outputs |-> IF inputValue > outputValue /\ Len(outputs) > 0
                  THEN [outputs EXCEPT ![1].Satoshis = @ + change]
                  ELSE outputs]

\* the transaction Combine builds from the accepted pledges
CombinedTx ==
  LET inputs == Concat([i \in 1..Len(pledges) |-> pledges[i].tx.Inputs])
      inputValue == SumSeq([i \in 1..Len(pledges) |-> Amount(pledges[i])])
      outputs == ProjectOutputs(project).val
      outputValue == SumSeq([i \in 1..Len(outputs) |-> outputs[i].Satoshis])
      change == inputValue - outputValue
  IN [Inputs  |-> inputs,
      Outputs |-> IF inputValue > outputValue /\ Len(outputs) > 0
                  THEN [outputs EXCEPT ![1].Satoshis = @ + change]
                  ELSE outputs]

\* a search that settles for the last accepted pledge when no id matches
FindPledgeOrLast(pledgeID) ==
  IF \E i \in 1..Len(pledges) : PledgeID(pledges[i]) = pledgeID
  THEN CHOOSE i \in 1..Len(pledges) :
         /\ PledgeID(pledges[i]) = pledgeID
         /\ \A j \in 1..(i - 1) : PledgeID(pledges[j]) # pledgeID
  ELSE Len(pledges)

\* index of the first accepted pledge with the given id, 0 when none
FindPledge(pledgeID) ==
  IF \E i \in 1..Len(pledges) : PledgeID(pledges[i]) = pledgeID
  THEN CHOOSE i \in 1..Len(pledges) :
         /\ PledgeID(pledges[i]) = pledgeID
         /\ \A j \in 1..(i - 1) : PledgeID(pledges[j]) # pledgeID
  ELSE 0

\* ------------------------------------------------------------------------
\* Worlds: the project of the contract and the pledge requests
\* (project, amount, utxos) the contributors of a run may issue.
\* ------------------------------------------------------------------------
Utxo(txid, vout, satoshis) == [TxID |-> txid, Vout |-> vout, Satoshis |-> satoshis]

\* wall-clock readings (timestamppb.Now)
Times == {1}

\* a project file with two payout outputs, as another tool may write it
TwoOutputData ==
  MarshalProject(
    [Version |-> ProjectVersion,
     Details |-> [Network |-> "mainnet",
                  Outputs |-> << [Amount |-> 60000, Script |-> P2PKHLock(ValidAddress)],
                                 [Amount |-> 40000, Script |-> P2PKHLock(OtherAddress)] >>,
                  Time    |-> 1,
                  Memo    |-> "Two payout outputs"],
     Extra   |-> [Title |-> "Two", CoverImage |-> <<>>, AuthKey |-> <<>>,
                  MinPledgeAmount |-> 0]])

TwoOutputProject == LoadProject(TwoOutputData).val

OtherProject ==
  NewProject("Other Project", "Different project", 200000, OtherAddress, 1).val

UtxoA == Utxo(1, 0, 45000)
UtxoB == Utxo(1, 1, 60000)
UtxoC == Utxo(2, 0, 70000)

Offer(proj, amount, utxos) == [project |-> proj, amount |-> amount, utxos |-> utxos]

\* the general world: a two-output project with goal 100000; pledges with
\* one or two inputs, input values above the pledged amount, totals that
\* meet the goal exactly (B+C, A+B, AB+C) or exceed it (A+B+C); a pledge
\* for another project, one below the minimum, one with too few funds
GeneralWorld ==
  [project |-> TwoOutputProject,
   offers  |-> {Offer(TwoOutputProject, 40000, <<UtxoA>>),
                Offer(TwoOutputProject, 60000, <<UtxoB>>),
                Offer(TwoOutputProject, 40000, <<UtxoC>>),
                Offer(TwoOutputProject, 60000, <<UtxoA, UtxoB>>),
                Offer(TwoOutputProject, 60000, <<UtxoA>>),
                Offer(TwoOutputProject, 5000, <<UtxoA>>),
                Offer(OtherProject, 40000, <<UtxoA>>)}]

\* TestContractProgress: goal 1 BSV, pledges of 0.25 BSV (and one of
\* 0.3 BSV), each from its own utxo holding the amount plus a buffer
ProgressProject ==
  NewProject("Progress Test", "Test Description", 100000000, ValidAddress, 1).val

ProgressWorld ==
  [project |-> ProgressProject,
   offers  |-> {Offer(ProgressProject, 25000000, << Utxo(t, v, 25010000) >>) :
                   t \in {1, 2}, v \in {0, 1}}
               \cup {Offer(ProgressProject, 30000000, << Utxo(2, 1, 30010000) >>)}]

\* the pledge-builder world: a single-output project with goal 100000
\* (minimum pledge 10000), the two-output project, and a single-output
\* project with goal 50000 whose file sets the minimum pledge to 20000;
\* requests at and around the minimum and the available funds, with more
\* utxos than the amount needs, and with amounts that do not divide evenly
SingleProject ==
  NewProject("Single", "One payout output", 100000, ValidAddress, 1).val

MinPledgeData ==
  MarshalProject(
    [Version |-> ProjectVersion,
     Details |-> [Network |-> "mainnet",
                  Outputs |-> << [Amount |-> 50000, Script |-> P2PKHLock(ValidAddress)] >>,
                  Time    |-> 1,
                  Memo    |-> "Minimum pledge 20000"],
     Extra   |-> [Title |-> "Min", CoverImage |-> <<>>, AuthKey |-> <<>>,
                  MinPledgeAmount |-> 20000]])

MinPledgeProject == LoadProject(MinPledgeData).val

UtxoS == Utxo(3, 0, 1000)

BuilderWorld ==
  [project |-> SingleProject,
   offers  |-> {Offer(SingleProject, 5000, <<UtxoS>>),
                Offer(SingleProject, 9999, <<UtxoA>>),
                Offer(SingleProject, 10000, <<UtxoA>>),
                Offer(SingleProject, 12507, <<UtxoA>>),
                Offer(SingleProject, 30000, <<>>),
                Offer(SingleProject, 40000, <<UtxoA, UtxoB>>),
                Offer(SingleProject, 45000, <<UtxoA>>),
                Offer(SingleProject, 45001, <<UtxoA>>),
                Offer(SingleProject, 50000, <<UtxoA, UtxoB, UtxoC>>),
                Offer(SingleProject, 105000, <<UtxoA, UtxoB>>),
                Offer(SingleProject, 105001, <<UtxoA, UtxoB>>),
                Offer(TwoOutputProject, 10175, <<UtxoC>>),
                Offer(TwoOutputProject, 12510, <<UtxoB>>),
                Offer(TwoOutputProject, 40000, <<UtxoA>>),
                Offer(MinPledgeProject, 19999, <<UtxoA>>),
                Offer(MinPledgeProject, 20000, <<UtxoA>>)}]

\* the requests of all worlds
\* a contributor's wallet lists utxo A twice
RepeatWorld ==
  [project |-> TwoOutputProject,
   offers  |-> {Offer(TwoOutputProject, 60000, <<UtxoA, UtxoA>>),
                Offer(TwoOutputProject, 60000, <<UtxoB>>),
                Offer(TwoOutputProject, 40000, <<UtxoC>>)}]

AllOffers ==
  GeneralWorld.offers \cup ProgressWorld.offers \cup BuilderWorld.offers
    \cup RepeatWorld.offers

\* NewPledge on the requests of the worlds
NewPledgeOf ==
  [o \in AllOffers, now \in Times |-> NewPledge(o.project, o.amount, o.utxos, now)]

\* pledge files written by other tools: one without inputs, one whose input
\* has an empty transaction hash
NoInputsPledgeData ==
  MarshalPledge([ProjectId |-> TwoOutputProject.id, Inputs |-> <<>>, Contact |-> Nil,
                 Memo |-> "", Time |-> 1, RefundAddress |-> ""])

BadHashPledgeData ==
  MarshalPledge([ProjectId |-> TwoOutputProject.id,
                 Inputs |-> << [TxHash |-> 0, OutputIndex |-> 0,
                                UnlockScript |-> SigScript,
                                Sequence |-> DefaultSequence] >>,
                 Contact |-> Nil, Memo |-> "", Time |-> 1, RefundAddress |-> ""])

ForeignPledgeFiles == {NoInputsPledgeData, BadHashPledgeData}

\* metadata a contributor attaches to a pledge
Memos == {"", "Good luck"}
RefundAddresses == {ValidAddress}
Contacts == {<<"Ann", "ann@example.org">>}

\* the arguments a project owner hands to NewProject
Titles == {"", "Test Project"}
Descriptions == {"", "Test Description"}
Goals == {0, 1, 100000}
PayoutAddresses == Addresses \cup {"invalid-address"}

\* project files: a project without payout outputs, a message without a
\* details section
NoOutputsData ==
  MarshalProject(
    [Version |-> ProjectVersion,
     Details |-> [Network |-> "mainnet", Outputs |-> <<>>, Time |-> 1,
                  Memo |-> "No payout outputs"],
     Extra   |-> Nil])

NoDetailsData ==
  MarshalProject([Version |-> ProjectVersion, Details |-> Nil, Extra |-> Nil])

\* no bytes at all; a project file cut off inside its second field; bytes
\* that start with the illegal field number 0
EmptyData == <<>>

TruncatedData == << <<1, ProjectVersion>>, <<2>> >>

GarbageData == << <<0, 0>> >>

ForeignProjectFiles ==
  {TwoOutputData, MinPledgeData, NoOutputsData, NoDetailsData,
   EmptyData, TruncatedData, GarbageData}

AuthKeys == {<<>>, <<2, 171>>}

\* the buffers of TestProjectCoverImage (a JPEG header, a PNG header, four
\* other bytes, one byte), three bytes of a JPEG header, four bytes that
\* begin like a JPEG header and differ in the third, and no bytes
Images == {<<255, 216, 255, 224, 0, 16>>, <<137, 80, 78, 71, 13, 10, 26, 10>>,
           <<0, 1, 2, 3>>, <<255>>, <<255, 216, 255>>, <<255, 216, 0, 0>>, <<>>}

\* ------------------------------------------------------------------------
\* State machine
\* ------------------------------------------------------------------------
Result(op, err, arg, tx) == [op |-> op, err |-> err, arg |-> arg, tx |-> tx]

\* the pledge a caller's pointer refers to: 0 is the pledge the caller
\* holds outside the contract, i > 0 the i-th accepted pledge
Target(src) == IF src = 0 THEN held ELSE pledges[src]

Sources == {i \in 0..Len(pledges) : i = 0 => held # Nil}

\* the callers of a shared contract; a caller is outside every contract
\* call (idle) or at a step of the one call it is in
Callers == 1..NumCallers

IdleCall == [pc |-> "idle", op |-> "", pledge |-> Nil, id |-> 0, idx |-> 0,
             err |-> NoError, tx |-> Nil]

NoCalls == [c \in Callers |-> IdleCall]

\* NewContract(project)
InitWorld(w) ==
  /\ project = w.project
  /\ offers = w.offers
  /\ pledges = <<>>
  /\ combined = Nil
  /\ held = Nil
  /\ ret = Result("NewContract", NoError, 0, Nil)
  /\ mutex = 0
  /\ calls = NoCalls

\* a contributor builds a pledge; the caller keeps the returned pledge
DoNewPledge ==
  \E o \in offers, now \in Times :
    LET r == NewPledgeOf[o, now]
    IN /\ held' = IF r.err = NoError THEN r.val ELSE held
       /\ ret' = Result("NewPledge", r.err, 0, Nil)
       /\ UNCHANGED <<project, offers, pledges, combined, mutex, calls>>

\* Pledge.Sign on the pledge the caller holds.  (An accepted pledge is
\* fully signed; signing it again through a retained pointer rewrites its
\* unlocking scripts with scripts of the same form.)
DoSign ==
  \E nKeys \in 0..MaxKeys :
   \E badKey \in 0..nKeys :
    LET r == Sign(held, nKeys, badKey)
    IN /\ held # Nil
       /\ held' = r.val
       /\ ret' = Result("Sign", r.err, 0, Nil)
       /\ UNCHANGED <<project, offers, pledges, combined, mutex, calls>>

\* the pledge files a coordinator finds: the serialized pledges of the
\* run and the files of other tools
PledgeFiles ==
  {PledgeSerialize(Target(src)) : src \in Sources} \cup ForeignPledgeFiles

\* LoadPledge on the bytes of a pledge file
DoLoadPledge ==
  \E data \in PledgeFiles :
    LET r == LoadPledge(data)
    IN /\ held' = IF r.err = NoError THEN r.val ELSE held
       /\ ret' = Result("LoadPledge", r.err, 0, Nil)
       /\ UNCHANGED <<project, offers, pledges, combined, mutex, calls>>

\* Pledge.SetMemo, SetRefundAddress, SetContactInfo on the pledge the
\* caller holds
DoSetMemo ==
  \E memo \in Memos :
    /\ held # Nil
    /\ held' = SetMemo(held, memo)
    /\ ret' = Result("SetMemo", NoError, 0, Nil)
    /\ UNCHANGED <<project, offers, pledges, combined, mutex, calls>>

DoSetRefundAddress ==
  \E address \in RefundAddresses :
    /\ held # Nil
    /\ held' = SetRefundAddress(held, address)
    /\ ret' = Result("SetRefundAddress", NoError, 0, Nil)
    /\ UNCHANGED <<project, offers, pledges, combined, mutex, calls>>

DoSetContactInfo ==
  \E c \in Contacts :
    /\ held # Nil
    /\ held' = SetContactInfo(held, c[1], c[2])
    /\ ret' = Result("SetContactInfo", NoError, 0, Nil)
    /\ UNCHANGED <<project, offers, pledges, combined, mutex, calls>>

\* NewProject; the owner keeps the returned project
DoNewProject ==
  \E title \in Titles, description \in Descriptions, goalAmount \in Goals,
     address \in PayoutAddresses, now \in Times :
    LET r == NewProject(title, description, goalAmount, address, now)
    IN /\ project' = IF r.err = NoError THEN r.val ELSE project
       /\ ret' = Result("NewProject", r.err,
                        <<title, description, goalAmount, address>>, Nil)
       /\ UNCHANGED <<offers, pledges, combined, held, mutex, calls>>

\* the project files an owner or a contributor finds
ProjectFiles ==
  ForeignProjectFiles
    \cup (IF project = Nil THEN {} ELSE {ProjectSerialize(project)})

\* LoadProject on the bytes of a project file
DoLoadProject ==
  \E data \in ProjectFiles :
    LET r == LoadProject(data)
    IN /\ project' = IF r.err = NoError THEN r.val ELSE project
       /\ ret' = Result("LoadProject", r.err, data, Nil)
       /\ UNCHANGED <<offers, pledges, combined, held, mutex, calls>>

DoSetAuthKey ==
  \E pubKey \in AuthKeys :
    /\ project # Nil
    /\ project' = SetAuthKey(project, pubKey)
    /\ ret' = Result("SetAuthKey", NoError, 0, Nil)
    /\ UNCHANGED <<offers, pledges, combined, held, mutex, calls>>

DoSetCoverImage ==
  \E imageData \in Images :
    LET r == SetCoverImage(project, imageData)
    IN /\ project # Nil
       /\ project' = r.val
       /\ ret' = Result("SetCoverImage", r.err, imageData, Nil)
       /\ UNCHANGED <<offers, pledges, combined, held, mutex, calls>>

\* NewContract for the project the owner holds
DoNewContract ==
  /\ project # Nil
  /\ pledges' = <<>>
  /\ combined' = Nil
  /\ ret' = Result("NewContract", NoError, 0, Nil)
  /\ UNCHANGED <<project, offers, held, mutex, calls>>

\* Contract.AddPledge
DoAddPledge ==
  \E src \in Sources :
    LET p == Target(src)
        err == AddPledgeError(p)
    IN /\ IF err = NoError
          THEN /\ pledges' = Append(pledges, p)
               /\ held' = IF src = 0 THEN Nil ELSE held
          ELSE UNCHANGED <<pledges, held>>
       /\ ret' = Result("AddPledge", err, src, Nil)
       /\ UNCHANGED <<project, offers, combined, mutex, calls>>

NonExistentID == Sha256Hex(<<>>)

KnownIDs ==
       {PledgeID(pledges[i]) : i \in 1..Len(pledges)}
  \cup (IF held = Nil THEN {} ELSE {PledgeID(held)})
  \cup {NonExistentID}

\* Contract.RemovePledge; the caller keeps the removed pledge
DoRemovePledge ==
  \E pledgeID \in KnownIDs :
    LET i == FindPledge(pledgeID)
    IN /\ IF i > 0
          THEN /\ pledges' = RemoveAt(pledges, i)
               /\ held' = pledges[i]
               /\ ret' = Result("RemovePledge", NoError, pledgeID, Nil)
          ELSE /\ UNCHANGED <<pledges, held>>
               /\ ret' = Result("RemovePledge", Error("pledge not found", 0, 0),
                                pledgeID, Nil)
       /\ UNCHANGED <<project, offers, combined, mutex, calls>>

\* Contract.Combine
DoCombine ==
  /\ IF ~CanClaim
     THEN /\ ret' = Result("Combine",
                       Error("funding goal not reached", TotalPledged,
                             GoalAmount(project)), 0, Nil)
          /\ UNCHANGED combined
     ELSE IF ProjectOutputs(project).err # NoError
     THEN /\ ret' = Result("Combine", ProjectOutputs(project).err, 0, Nil)
          /\ UNCHANGED combined
     ELSE /\ combined' = CombinedTx
          /\ ret' = Result("Combine", NoError, 0, CombinedTx)
  /\ UNCHANGED <<project, offers, pledges, held, mutex, calls>>

\* Contract.Transaction
Transaction == combined

\* ------------------------------------------------------------------------
\* The command line (cmd/lighthouse): amounts are given in BSV and parsed
\* to float64; a decimal is written num/den here.
\* ------------------------------------------------------------------------
SatoshisPerBSV == 100000000

ParseFloat(a) == Float64Div(a.num, a.den)

\* uint64(goal * 100000000)
ToSatoshis(f) == Float64ToUint64(Float64Mul(SatoshisPerBSV, f))

\* the default of the --min-pledge flag, 0.0001
MinPledgeFlagDefault == [num |-> 1, den |-> 10000]

\* lighthouse project create: the minimum pledge is converted and then
\* left unused ("For now, the default is used")
projectCreateCmd(title, description, goal, address, minPledge, now) ==
  LET goalSatoshis == ToSatoshis(ParseFloat(goal))
      minPledgeSatoshis == ToSatoshis(ParseFloat(minPledge))
      r == NewProject(title, description, goalSatoshis, address, now)
  IN IF r.err # NoError
     THEN [err |-> Wrap("failed to create project", r.err), val |-> Nil]
     ELSE [err |-> NoError, val |-> r.val]

\* the command lines of the README: goals of 0, 0.001 and 5 BSV, minimum
\* pledges of 0.0001, 0.001 and 0.0029 BSV
GoalFlags == {[num |-> 0, den |-> 1], [num |-> 1, den |-> 1000], [num |-> 5, den |-> 1]}

MinPledgeFlags ==
  {[num |-> 1, den |-> 10000], [num |-> 1, den |-> 1000], [num |-> 29, den |-> 10000]}

\* projectCreateCmd tabulated over the command lines
ProjectCreateOf ==
  [title \in Titles, description \in Descriptions, goal \in GoalFlags,
   address \in PayoutAddresses, minPledge \in MinPledgeFlags \cup {MinPledgeFlagDefault}, now \in Times |->
     projectCreateCmd(title, description, goal, address, minPledge, now)]

\* the project file the command writes holds the project it built
DoProjectCreate ==
  \E title \in Titles, description \in Descriptions, goal \in GoalFlags,
     address \in PayoutAddresses, given \in BOOLEAN, flag \in MinPledgeFlags,
     now \in Times :
    LET minPledge == IF given THEN flag ELSE MinPledgeFlagDefault
        r == ProjectCreateOf[title, description, goal, address, minPledge, now]
    IN /\ ~given => flag = MinPledgeFlagDefault
       /\ project' = IF r.err = NoError THEN r.val ELSE project
       /\ ret' = Result("project create", r.err,
                        [title |-> title, description |-> description,
                         goal |-> goal, address |-> address,
                         given |-> given, minPledge |-> minPledge], Nil)
       /\ UNCHANGED <<offers, pledges, combined, held, mutex, calls>>

\* ------------------------------------------------------------------------
\* Several callers share one contract and serialize their calls with a
\* mutex of their own; inside the mutex a call runs the steps of its code.
\* ------------------------------------------------------------------------
\* the signed pledge a contributor hands in for an offer
SignedOffer(o) == Sign(NewPledgeOf[o, 1].val, Len(o.utxos), 0).val

\* pledges on utxo A, on utxo B, and on both
SharedPledges ==
  {SignedOffer(Offer(TwoOutputProject, 40000, <<UtxoA>>)),
   SignedOffer(Offer(TwoOutputProject, 60000, <<UtxoB>>)),
   SignedOffer(Offer(TwoOutputProject, 60000, <<UtxoA, UtxoB>>))}

Returning(call, err, tx) == [call EXCEPT !.pc = "return", !.err = err, !.tx = tx]

\* the caller takes the mutex and enters AddPledge, RemovePledge or Combine
Lock(c) ==
  /\ mutex = 0
  /\ calls[c].pc = "idle"
  /\ mutex' = c
  /\ \/ \E p \in SharedPledges :
          calls' = [calls EXCEPT ![c] =
                      [IdleCall EXCEPT !.pc = "AddPledge.check",
                                       !.op = "AddPledge", !.pledge = p]]
     \/ \E pledgeID \in {PledgeID(p) : p \in SharedPledges} :
          calls' = [calls EXCEPT ![c] =
                      [IdleCall EXCEPT !.pc = "RemovePledge.find",
                                       !.op = "RemovePledge", !.id = pledgeID]]
     \/ calls' = [calls EXCEPT ![c] =
                    [IdleCall EXCEPT !.pc = "Combine.check", !.op = "Combine"]]
  /\ UNCHANGED <<project, offers, pledges, combined, held, ret>>

\* AddPledge up to the end of its duplicate loop
AddPledgeCheck(c) ==
  LET err == AddPledgeError(calls[c].pledge)
  IN /\ calls[c].pc = "AddPledge.check"
     /\ calls' = [calls EXCEPT ![c] =
                    IF err = NoError
                    THEN [calls[c] EXCEPT !.pc = "AddPledge.append"]
                    ELSE Returning(calls[c], err, Nil)]
     /\ UNCHANGED <<project, offers, pledges, combined, held, ret, mutex>>

\* an append that writes over the last element
AppendPledgeOverLast(ps, p) ==
  IF ps = <<>> THEN <<p>> ELSE [ps EXCEPT ![Len(ps)] = p]

\* c.pledges = append(c.pledges, pledge)
AppendPledge(ps, p) == Append(ps, p)

AddPledgeAppend(c) ==
  /\ calls[c].pc = "AddPledge.append"
  /\ pledges' = AppendPledge(pledges, calls[c].pledge)
  /\ calls' = [calls EXCEPT ![c] = Returning(calls[c], NoError, Nil)]
  /\ UNCHANGED <<project, offers, combined, held, ret, mutex>>

\* RemovePledge: the loop that looks for the id
RemovePledgeFind(c) ==
  LET i == FindPledge(calls[c].id)
  IN /\ calls[c].pc = "RemovePledge.find"
     /\ calls' = [calls EXCEPT ![c] =
                    IF i > 0
                    THEN [calls[c] EXCEPT !.pc = "RemovePledge.cut", !.idx = i]
                    ELSE Returning(calls[c], Error("pledge not found", 0, 0), Nil)]
     /\ UNCHANGED <<project, offers, pledges, combined, held, ret, mutex>>

\* c.pledges = append(c.pledges[:i], c.pledges[i+1:]...)
RemovePledgeCut(c) ==
  /\ calls[c].pc = "RemovePledge.cut"
  /\ pledges' = RemoveAt(pledges, calls[c].idx)
  /\ calls' = [calls EXCEPT ![c] = Returning(calls[c], NoError, Nil)]
  /\ UNCHANGED <<project, offers, combined, held, ret, mutex>>

\* Combine: the goal test
CombineCheck(c) ==
  /\ calls[c].pc = "Combine.check"
  /\ calls' = [calls EXCEPT ![c] =
                 IF ~CanClaim
                 THEN Returning(calls[c],
                                Error("funding goal not reached", TotalPledged,
                                      GoalAmount(project)), Nil)
                 ELSE [calls[c] EXCEPT !.pc = "Combine.build"]]
  /\ UNCHANGED <<project, offers, pledges, combined, held, ret, mutex>>

\* Combine: the transaction is built and cached
CombineBuild(c) ==
  /\ calls[c].pc = "Combine.build"
  /\ IF ProjectOutputs(project).err # NoError
     THEN /\ calls' = [calls EXCEPT ![c] =
                         Returning(calls[c], ProjectOutputs(project).err, Nil)]
          /\ UNCHANGED combined
     ELSE /\ combined' = CombinedTx
          /\ calls' = [calls EXCEPT ![c] = Returning(calls[c], NoError, CombinedTx)]
  /\ UNCHANGED <<project, offers, pledges, held, ret, mutex>>

\* the call returns and the caller releases the mutex
Unlock(c) ==
  /\ calls[c].pc = "return"
  /\ mutex' = 0
  /\ calls' = [calls EXCEPT ![c] = IdleCall]
  /\ ret' = Result(calls[c].op, calls[c].err, c, calls[c].tx)
  /\ UNCHANGED <<project, offers, pledges, combined, held>>

\* The contract: pledges are built, signed, added, removed and combined.
Init == InitWorld(GeneralWorld)

Next ==
  \/ DoNewPledge
  \/ DoSign
  \/ DoAddPledge
  \/ DoRemovePledge
  \/ DoCombine

Spec == Init /\ [][Next]_vars

\* The funding-progress scenario of TestContractProgress.
InitProgress == InitWorld(ProgressWorld)

NextProgress ==
  \/ DoNewPledge
  \/ DoSign
  \/ DoAddPledge
  \/ DoRemovePledge

SpecProgress == InitProgress /\ [][NextProgress]_vars

\* The end-to-end flow: contributors build, sign and serialize pledges, a
\* coordinator loads the files and feeds a contract.
InitFlow == InitWorld(GeneralWorld)

NextFlow ==
  \/ DoNewPledge
  \/ DoSign
  \/ DoLoadPledge
  \/ DoAddPledge
  \/ DoCombine

SpecFlow == InitFlow /\ [][NextFlow]_vars

\* The pledge builder: contributors build pledges, attach metadata and sign.
InitBuilder == InitWorld(BuilderWorld)

NextBuilder ==
  \/ DoNewPledge
  \/ DoSetMemo
  \/ DoSetRefundAddress
  \/ DoSetContactInfo
  \/ DoSign

SpecBuilder == InitBuilder /\ [][NextBuilder]_vars

\* The project owner: projects are created, loaded from files and given
\* optional metadata; no contract exists yet.
InitProject ==
  /\ project = Nil
  /\ offers = {}
  /\ pledges = <<>>
  /\ combined = Nil
  /\ held = Nil
  /\ ret = Result("none", NoError, 0, Nil)
  /\ mutex = 0
  /\ calls = NoCalls

NextProject ==
  \/ DoNewProject
  \/ DoLoadProject
  \/ DoSetAuthKey
  \/ DoSetCoverImage

SpecProject == InitProject /\ [][NextProject]_vars

\* The owner builds a project with NewProject or LoadProject, constructs a
\* contract for it and calls Combine on the contract.
ContractExists == ret.op \in {"NewContract", "Combine"}

NextOwner ==
  \/ ~ContractExists /\ DoNewProject
  \/ ~ContractExists /\ DoLoadProject
  \/ DoNewContract
  \/ ContractExists /\ DoCombine

SpecOwner == InitProject /\ [][NextOwner]_vars

\* The command line: projects are created with project create and the
\* project files are loaded again.
NextCLI ==
  \/ DoProjectCreate
  \/ DoLoadProject

SpecCLI == InitProject /\ [][NextCLI]_vars

\* The contract of a project to which one contributor offers a pledge
\* built from a list that names an input twice.
SpecRepeat == InitWorld(RepeatWorld) /\ [][Next]_vars

\* Callers share the contract of the general scenario under a mutex.
NextShared ==
  \E c \in Callers :
    \/ Lock(c)
    \/ AddPledgeCheck(c)
    \/ AddPledgeAppend(c)
    \/ RemovePledgeFind(c)
    \/ RemovePledgeCut(c)
    \/ CombineCheck(c)
    \/ CombineBuild(c)
    \/ Unlock(c)

SpecShared == InitWorld(GeneralWorld) /\ [][NextShared]_vars

\* ------------------------------------------------------------------------
\* Properties
\* ------------------------------------------------------------------------
RECURSIVE PledgedSum(_)
PledgedSum(ps) == IF ps = <<>> THEN 0 ELSE Head(ps).amount + PledgedSum(Tail(ps))

RECURSIVE AllInputs(_)
AllInputs(ps) == IF ps = <<>> THEN <<>> ELSE Head(ps).tx.Inputs \o AllInputs(Tail(ps))

Outpoints(p) ==
  {<<p.tx.Inputs[k].SourceTXID, p.tx.Inputs[k].SourceTxOutIndex>> :
     k \in 1..Len(p.tx.Inputs)}

SharesInputWithAccepted(p) ==
  \E i \in 1..Len(pledges) : Outpoints(pledges[i]) \cap Outpoints(p) # {}

FullySigned(p) ==
  /\ Len(p.tx.Inputs) > 0
  /\ Len(p.tx.Outputs) > 0
  /\ \A k \in 1..Len(p.tx.Inputs) : p.tx.Inputs[k].UnlockingScript # ""

Payouts == project.pb.Details.Outputs

PayoutSum == SumSeq([k \in 1..Len(Payouts) |-> Payouts[k].Amount])

DuplicateInputError == Error("pledge uses same inputs as existing pledge", 0, 0)

\* C1: no two accepted pledges share an input (sourceTxId, outputIndex);
\* an AddPledge of a pledge that shares an input with an accepted pledge
\* fails and leaves the pledge list as it was, and when the pledge is for
\* this project and valid the failure is the duplicate-input error.
NoSharedInput ==
  \A i, j \in 1..Len(pledges) :
    i < j => Outpoints(pledges[i]) \cap Outpoints(pledges[j]) = {}

DuplicateRejected ==
  (ret'.op = "AddPledge" /\ SharesInputWithAccepted(Target(ret'.arg)))
    => /\ ret'.err # NoError
       /\ pledges' = pledges
       /\ (ProjectID(Target(ret'.arg)) = project.id /\ FullySigned(Target(ret'.arg))
             => ret'.err = DuplicateInputError)

CombineBelowGoal ==
  (ret'.op = "Combine" /\ PledgedSum(pledges) < project.goalAmount)
    => /\ ret'.err = Error("funding goal not reached", PledgedSum(pledges),
                           project.goalAmount)
       /\ ret'.tx = Nil
       /\ pledges' = pledges
       /\ combined' = combined

NoTxBelowGoal ==
  (ret.op = "Combine" /\ ret.tx # Nil) => PledgedSum(pledges) >= project.goalAmount

C2_GoalNotReached == []NoTxBelowGoal /\ [][CombineBelowGoal]_vars

C2_Witness ==
  /\ ret.op = "Combine"
  /\ ret.err.kind = "funding goal not reached"
  /\ ret.err.a = 60000
  /\ ret.err.b = 100000
  /\ Len(pledges) = 1
  /\ combined # Nil

\* C3: after a successful RemovePledge no combined transaction is cached
\* (Transaction() reports none until Combine succeeds again).
C3_RemoveInvalidates ==
  (ret.op = "RemovePledge" /\ ret.err = NoError) => Transaction = Nil

\* C4: after a successful AddPledge the pledge is the last of the pledge
\* list and no combined transaction is cached.
C4_AddInvalidates ==
  (ret.op = "AddPledge" /\ ret.err = NoError)
    => Len(pledges) > 0 /\ Transaction = Nil

\* C5: a Combine called with the pledged total at or above the goal
\* succeeds; the inputs of the returned transaction are the accepted
\* pledges' inputs concatenated in insertion order, its outputs are the
\* project's payout outputs in project order (same count, same locking
\* scripts), and the result is the cached transaction.
C5_CombineShape ==
  (ret.op = "Combine" /\ PledgedSum(pledges) >= project.goalAmount)
    => /\ ret.err = NoError
       /\ ret.tx # Nil
       /\ ret.tx.Inputs = AllInputs(pledges)
       /\ Len(ret.tx.Inputs) = SumSeq([i \in 1..Len(pledges) |-> Len(pledges[i].tx.Inputs)])
       /\ Len(ret.tx.Outputs) = Len(Payouts)
       /\ \A k \in 1..Len(Payouts) : ret.tx.Outputs[k].LockingScript = Payouts[k].Script
       /\ Transaction = ret.tx

C5_Witness ==
  /\ ret.op = "Combine"
  /\ ret.err = NoError
  /\ Len(pledges) = 2
  /\ Len(pledges[1].tx.Inputs) = 2
  /\ Len(ret.tx.Inputs) = 3
  /\ Len(ret.tx.Outputs) = 2

\* C6: in the transaction of a successful Combine, with surplus the sum of
\* the combined inputs' values minus the sum of the payout amounts, the
\* first output is the first payout amount plus the surplus when the
\* surplus is positive, and every other output is its payout amount.
InputValueSum(tx) ==
  SumSeq([k \in 1..Len(tx.Inputs) |-> tx.Inputs[k].SourceSatoshis])

C6_SurplusOfInputValues ==
  (ret.op = "Combine" /\ ret.err = NoError)
    => LET surplus == InputValueSum(ret.tx) - PayoutSum
       IN \A k \in 1..Len(ret.tx.Outputs) :
            ret.tx.Outputs[k].Satoshis =
              IF k = 1 /\ surplus > 0 THEN Payouts[k].Amount + surplus
              ELSE Payouts[k].Amount

\* C7: TotalPledged is the sum of the amounts of the accepted pledges,
\* Progress/100 is TotalPledged/goalAmount, CanClaim holds exactly when
\* TotalPledged >= goalAmount; with goal 100000000 and k accepted pledges
\* of 25000000 each, Progress is 25*k and CanClaim holds exactly at k = 4.
AllQuarterPledges ==
  \A i \in 1..Len(pledges) : pledges[i].amount = 25000000

RemovesExactlyOne ==
  (ret'.op = "RemovePledge" /\ ret'.err = NoError)
    => \E i \in 1..Len(pledges) :
         /\ pledges[i].id = ret'.arg
         /\ \A j \in 1..Len(pledges) : pledges[j].id = ret'.arg => j = i
         /\ Len(pledges') = Len(pledges) - 1
         /\ \A j \in 1..Len(pledges') :
              pledges'[j] = IF j < i THEN pledges[j] ELSE pledges[j + 1]
         /\ PledgedSum(pledges') = PledgedSum(pledges) - pledges[i].amount

C8_RemoveExact == [][RemovesExactlyOne]_vars

C8_Witness ==
  /\ ret.op = "RemovePledge"
  /\ ret.err = NoError
  /\ Len(pledges) = 2
  /\ held # Nil
  /\ held.amount = 60000
  /\ PledgedSum(pledges) = 80000

\* C9: a pledge loaded from the bytes of a created and signed pledge for
\* the contract's project, sharing no input with an accepted pledge, is
\* accepted by AddPledge.
C9_LoadedPledgeAccepted ==
  (/\ ret.op = "AddPledge"
   /\ ret.arg = 0
   /\ held # Nil
   /\ held.origin = "LoadPledge"
   /\ held.pb.ProjectId = project.id
   /\ Len(held.pb.Inputs) > 0
   /\ \A k \in 1..Len(held.pb.Inputs) : held.pb.Inputs[k].UnlockScript # ""
   /\ ~SharesInputWithAccepted(held))
    => ret.err = NoError

\* C10: for every pledge p built by NewPledge, LoadPledge(p.Serialize())
\* succeeds and yields a pledge with the same ID, ProjectID and Amount.
Live == {pledges[i] : i \in 1..Len(pledges)} \cup (IF held = Nil THEN {} ELSE {held})

C10_PledgeRoundTrip ==
  \A p \in Live :
    p.origin = "NewPledge"
      => LET l == LoadPledge(PledgeSerialize(p))
         IN /\ l.err = NoError
            /\ l.val.id = p.id
            /\ l.val.pb.ProjectId = p.pb.ProjectId
            /\ l.val.amount = p.amount

\* C11: the identifier of the project and of every pledge is the hash of
\* its current serialized form, whatever setters (SetAuthKey, SetCoverImage,
\* SetMemo, SetRefundAddress, SetContactInfo) and Sign calls came before.
C11_IdentifierCurrent ==
  /\ project # Nil => project.id = Sha256Hex(MarshalProject(project.pb))
  /\ \A p \in Live : p.id = Sha256Hex(MarshalPledge(p.pb))

\* C12: an AddPledge of a pledge whose projectId differs from the id of
\* the contract's project fails with the wrong-project error, also when the
\* pledge is unsigned or reuses an input of an accepted pledge, and leaves
\* the pledge list, the pledged total and the cached transaction unchanged.
WrongProjectError == Error("pledge is for different project", 0, 0)

WrongProjectRejected ==
  (ret'.op = "AddPledge" /\ Target(ret'.arg).pb.ProjectId # project.id)
    => /\ ret'.err = WrongProjectError
       /\ pledges' = pledges
       /\ PledgedSum(pledges') = PledgedSum(pledges)
       /\ combined' = combined

C12_WrongProjectFirst == [][WrongProjectRejected]_vars

C12_Witness ==
  /\ ret.op = "AddPledge"
  /\ ret.err = WrongProjectError
  /\ ret.arg = 0
  /\ held # Nil
  /\ held.pb.ProjectId # project.id
  /\ ~FullySigned(held)
  /\ SharesInputWithAccepted(held)
  /\ combined # Nil

\* C13: Validate succeeds exactly on the pledges with at least one input,
\* at least one output and an unlocking script on every input; the pledge
\* NewPledge returns fails validation; an AddPledge of a pledge that fails
\* validation is rejected and leaves the contract unchanged, and for a
\* pledge of the contract's project the error is the validation error.
ValidationCauses == {"no inputs", "no outputs", "input is not signed"}

ValidatesIffComplete ==
  \A p \in Live : (Validate(p) = NoError) <=> FullySigned(p)

FreshPledgeInvalid ==
  (ret'.op = "NewPledge" /\ ret'.err = NoError) => Validate(held') # NoError

InvalidRejected ==
  (ret'.op = "AddPledge" /\ ~FullySigned(Target(ret'.arg)))
    => /\ ret'.err # NoError
       /\ Target(ret'.arg).pb.ProjectId = project.id
            => /\ ret'.err.kind = "invalid pledge"
               /\ ret'.err.cause \in ValidationCauses
       /\ pledges' = pledges
       /\ combined' = combined

NotFoundError == Error("pledge not found", 0, 0)

UnknownIdRejected ==
  (ret'.op = "RemovePledge" /\ \A i \in 1..Len(pledges) : pledges[i].id # ret'.arg)
    => /\ ret'.err = NotFoundError
       /\ pledges' = pledges
       /\ PledgedSum(pledges') = PledgedSum(pledges)
       /\ combined' = combined

SecondRemovalRejected ==
  (/\ ret.op = "RemovePledge"
   /\ ret.err = NoError
   /\ ret'.op = "RemovePledge"
   /\ ret'.arg = ret.arg)
    => /\ ret'.err = NotFoundError
       /\ pledges' = pledges
       /\ combined' = combined

C14_RemoveUnknown == [][UnknownIdRejected /\ SecondRemovalRejected]_vars

C14_Witness ==
  /\ ret.op = "RemovePledge"
  /\ ret.err = NotFoundError
  /\ held # Nil
  /\ ret.arg = held.id
  /\ FullySigned(held)
  /\ Len(pledges) >= 1
  /\ combined # Nil

\* C15: NewPledge with an amount below the project's minimum pledge fails
\* with the minimum error whatever the utxos are worth; with an amount at or
\* above the minimum it fails with the insufficient-funds error exactly when
\* the utxos together are worth less than the amount, and the error carries
\* that total and the amount; a failed NewPledge returns no pledge.
AvailableSum(o) == SumSeq([k \in 1..Len(o.utxos) |-> o.utxos[k].Satoshis])

CreateErrors ==
  \A o \in offers, now \in Times :
    LET r == NewPledgeOf[o, now]
        min == MinPledgeAmount(o.project)
    IN /\ o.amount < min
            => r.err = Error("less than minimum", o.amount, min) /\ r.val = Nil
       /\ o.amount >= min
            => /\ (r.err.kind = "insufficient funds") <=> (AvailableSum(o) < o.amount)
               /\ AvailableSum(o) < o.amount
                    => /\ r.err = Error("insufficient funds", AvailableSum(o), o.amount)
                       /\ r.val = Nil

FailedCreateReturnsNothing ==
  (ret'.op = "NewPledge" /\ ret'.err # NoError)
    => /\ held' = held
       /\ \E o \in offers, now \in Times : ret'.err = NewPledgeOf[o, now].err

C15_CreateErrors == []CreateErrors /\ [][FailedCreateReturnsNothing]_vars

C15_Witness ==
  /\ ret.op = "NewPledge"
  /\ ret.err = Error("less than minimum", 5000, 10000)
  /\ \A o \in offers : o.amount = 5000 => AvailableSum(o) < o.amount
  /\ held # Nil

\* C16: the inputs of the pledge a successful NewPledge returns are the
\* shortest prefix of the utxos, in the order handed in, whose values sum to
\* at least the amount; the utxos after that prefix are not inputs of the
\* pledge.
PrefixValue(utxos, n) == SumSeq([k \in 1..n |-> utxos[k].Satoshis])

IsShortestPrefix(p, o) ==
  /\ Len(p.tx.Inputs) <= Len(o.utxos)
  /\ Len(p.pb.Inputs) = Len(p.tx.Inputs)
  /\ \A k \in 1..Len(p.tx.Inputs) :
       /\ p.tx.Inputs[k].SourceTXID = o.utxos[k].TxID
       /\ p.tx.Inputs[k].SourceTxOutIndex = o.utxos[k].Vout
       /\ p.pb.Inputs[k].TxHash = o.utxos[k].TxID
       /\ p.pb.Inputs[k].OutputIndex = o.utxos[k].Vout
  /\ PrefixValue(o.utxos, Len(p.tx.Inputs)) >= o.amount
  /\ \A n \in 0..(Len(p.tx.Inputs) - 1) : PrefixValue(o.utxos, n) < o.amount

FirstFitCreate ==
  (ret'.op = "NewPledge" /\ ret'.err = NoError)
    => \A o \in offers, now \in Times :
         NewPledgeOf[o, now].val = held' => IsShortestPrefix(held', o)

C16_FirstFit == [][FirstFitCreate]_vars

\* C17: the pledge a successful NewPledge returns for amount a against a
\* project with goal g has one output per payout output of the project, in
\* the same order and with the same locking script, whose amount is
\* floor(payout * a / g); for a project with one payout output that amount
\* is a.
FloorShare(payout, a, g) ==
  LET q == Reduce(payout, g)
  IN (a * q.num) \div q.den

OutputsScaled(p, o) ==
  LET payouts == o.project.pb.Details.Outputs
  IN /\ Len(p.tx.Outputs) = Len(payouts)
     /\ \A k \in 1..Len(payouts) :
          /\ p.tx.Outputs[k].LockingScript = payouts[k].Script
          /\ p.tx.Outputs[k].Satoshis =
               FloorShare(payouts[k].Amount, o.amount, o.project.goalAmount)
     /\ Len(payouts) = 1 => p.tx.Outputs[1].Satoshis = o.amount

ScaledCreate ==
  (ret'.op = "NewPledge" /\ ret'.err = NoError)
    => \A o \in offers, now \in Times :
         NewPledgeOf[o, now].val = held' => OutputsScaled(held', o)

C17_OutputScaling == [][ScaledCreate]_vars

\* C18: Sign on a pledge built by NewPledge fails when the pledge has more
\* inputs than keys are handed in; with at least as many keys as inputs,
\* and the signing primitive succeeding on the keys it uses, Sign succeeds,
\* every input carries an unlocking script and Validate succeeds; a key on
\* which the primitive fails stops Sign at the input of the same index.
AllInputsSigned(p) ==
  /\ \A k \in 1..Len(p.tx.Inputs) : p.tx.Inputs[k].UnlockingScript # ""
  /\ \A k \in 1..Len(p.pb.Inputs) : p.pb.Inputs[k].UnlockScript # ""

SignOutcome ==
  \A p \in Live :
    p.origin = "NewPledge"
      => \A nKeys \in 0..MaxKeys :
          \A badKey \in 0..nKeys :
            LET r == Sign(p, nKeys, badKey)
                n == Len(p.tx.Inputs)
            IN /\ n > nKeys => r.err # NoError
               /\ (n > nKeys /\ badKey = 0)
                    => r.err = Error("no private key for input", nKeys, 0)
               /\ (n <= nKeys /\ (badKey = 0 \/ badKey > n))
                    => /\ r.err = NoError
                       /\ AllInputsSigned(r.val)
                       /\ Validate(r.val) = NoError
               /\ (badKey > 0 /\ badKey <= n)
                    => /\ r.err = Error("failed to sign input", badKey - 1, 0)
                       /\ r.val.tx.Inputs[badKey].UnlockingScript
                            = p.tx.Inputs[badKey].UnlockingScript

SignedPledgeValid ==
  (ret'.op = "Sign" /\ ret'.err = NoError /\ held.origin = "NewPledge")
    => AllInputsSigned(held') /\ Validate(held') = NoError

C18_SignAll == []SignOutcome /\ [][SignedPledgeValid]_vars

C18_Witness ==
  /\ ret.op = "Sign"
  /\ ret.err = NoError
  /\ held # Nil
  /\ held.origin = "NewPledge"
  /\ Len(held.tx.Inputs) = 2
  /\ AllInputsSigned(held)
  /\ Validate(held) = NoError

\* C19: NewProject with an empty title, an empty description, a goal of 0
\* or a payout address that does not decode fails with a validation error
\* and returns no project; with any other arguments it succeeds and returns
\* a project carrying the title, the description and the goal.
ValidationMessages ==
  {"title and description are required", "goal amount must be greater than 0",
   "invalid address"}

CreateOutcome ==
  ret'.op = "NewProject"
    => LET title == ret'.arg[1]
           description == ret'.arg[2]
           goalAmount == ret'.arg[3]
           address == ret'.arg[4]
       IN IF title = "" \/ description = "" \/ goalAmount = 0
             \/ address \notin Addresses
          THEN /\ ret'.err.kind \in ValidationMessages
               /\ project' = project
          ELSE /\ ret'.err = NoError
               /\ project' # Nil
               /\ project'.pb.Extra.Title = title
               /\ project'.pb.Details.Memo = description
               /\ project'.goalAmount = goalAmount

C19_CreateValidation == [][CreateOutcome]_vars

C19_Witness ==
  /\ ret.op = "NewProject"
  /\ ret.err.kind = "invalid address"
  /\ ret.arg = <<"Test Project", "Test Description", 100000, "invalid-address">>
  /\ project = Nil

\* C20: the goal of every project returned by NewProject or LoadProject is
\* the sum of the amounts of its payout outputs and is greater than 0; a
\* project returned by NewProject has one payout output, worth the goal.
ProjectPayoutSum(p) ==
  SumSeq([k \in 1..Len(p.pb.Details.Outputs) |-> p.pb.Details.Outputs[k].Amount])

C20_GoalIsPayoutSum ==
  /\ project # Nil
       => /\ project.goalAmount = ProjectPayoutSum(project)
          /\ project.goalAmount > 0
  /\ (ret.op = "NewProject" /\ ret.err = NoError)
       => /\ Len(project.pb.Details.Outputs) = 1
          /\ project.pb.Details.Outputs[1].Amount = project.goalAmount

\* ------------------------------------------------------------------------
\* C21: a project created by NewProject from valid arguments survives the
\* round trip: LoadProject of its serialized bytes succeeds and returns a
\* project with the same id, title, description, goal amount and minimum
\* pledge amount.  Stated for every project the owner holds, so also for a
\* created project that was given an auth key or a cover image.
\* ------------------------------------------------------------------------
SameProject(p, q) ==
  /\ q.id = p.id
  /\ Title(q) = Title(p)
  /\ Description(q) = Description(p)
  /\ GoalAmount(q) = GoalAmount(p)
  /\ MinPledgeAmount(q) = MinPledgeAmount(p)

LoadsOwnBytes ==
  /\ project # Nil
  /\ ret'.op = "LoadProject"
  /\ ret'.arg = ProjectSerialize(project)

RoundTripLoad ==
  LoadsOwnBytes => ret'.err = NoError /\ SameProject(project, project')

C21_ProjectRoundTrip == [][RoundTripLoad]_vars

C21_Witness ==
  /\ ret.op = "LoadProject"
  /\ ret.err = NoError
  /\ ret.arg = ProjectSerialize(project)
  /\ Title(project) = "Test Project"
  /\ Description(project) = "Test Description"
  /\ GoalAmount(project) = 100000
  /\ MinPledgeAmount(project) = DefaultMinPledgeAmount

\* ------------------------------------------------------------------------
\* C22: LoadProject never crashes: on every byte string it returns a
\* project or an unmarshalling error.  The code panics with a nil pointer
\* dereference on bytes that decode to a message without a details
\* section, the empty byte string among them.
\* ------------------------------------------------------------------------
LoadOutcomes == {"nil", "failed to unmarshal project"}

C22_LoadNeverCrashes ==
  ret.op = "LoadProject" => ret.err.kind \in LoadOutcomes

\* ------------------------------------------------------------------------
\* C23: a freshly constructed contract, for any project obtained from
\* NewProject or LoadProject, is empty: it has no pledges, TotalPledged is
\* 0, CanClaim is false, Progress is 0, there is no combined transaction,
\* and Combine fails with the goal-not-reached error.  For a loaded project
\* whose payout outputs sum to 0 the goal test 0 >= 0 succeeds.
\* ------------------------------------------------------------------------
FreshContractEmpty ==
  ret.op = "NewContract" =>
    /\ pledges = <<>>
    /\ TotalPledged = 0
    /\ Transaction = Nil
    /\ ~CanClaim
    /\ Progress = Reduce(0, 1)

CombineOnFreshFails ==
  ret.op = "NewContract" /\ ret'.op = "Combine" =>
    ret'.err.kind = "funding goal not reached" /\ combined' = Nil

C23_FreshContractEmpty == []FreshContractEmpty /\ [][CombineOnFreshFails]_vars

\* ------------------------------------------------------------------------
\* C24: SetCoverImage accepts a buffer exactly when it has at least 4 bytes
\* and begins with FF D8 FF or with 89 50 4E 47.  On acceptance the image
\* is stored and the id recomputed (a different image gives a different
\* id); on rejection a validation error is returned and the project, with
\* its cover image and id, is unchanged.
\* ------------------------------------------------------------------------
JPEGHeader == <<255, 216, 255>>

PNGHeader == <<137, 80, 78, 71>>

Acceptable(imageData) ==
  /\ Len(imageData) >= 4
  /\ \/ SubSeq(imageData, 1, 3) = JPEGHeader
     \/ SubSeq(imageData, 1, 4) = PNGHeader

CoverImageOf(p) == IF p.pb.Extra = Nil THEN <<>> ELSE p.pb.Extra.CoverImage

ImageErrors == {"invalid image data", "image must be JPEG or PNG format"}

CoverImageOutcome ==
  ret'.op = "SetCoverImage" =>
    IF Acceptable(ret'.arg)
    THEN /\ ret'.err = NoError
         /\ CoverImageOf(project') = ret'.arg
         /\ project'.id = ProjectCalculateID(project')
         /\ CoverImageOf(project) # ret'.arg => project'.id # project.id
    ELSE /\ ret'.err.kind \in ImageErrors
         /\ project' = project

C24_CoverImage == [][CoverImageOutcome]_vars

C24_Witness ==
  /\ ret.op = "SetCoverImage"
  /\ ret.err.kind \in ImageErrors
  /\ CoverImageOf(project) = <<137, 80, 78, 71, 13, 10, 26, 10>>

\* ------------------------------------------------------------------------
\* C25: when the callers of a contract serialize AddPledge, RemovePledge
\* and Combine with a mutex, every interleaving of their calls keeps the
\* accepted pledges free of shared inputs and never loses an accepted
\* pledge: an accepted pledge stays in the list until a RemovePledge of
\* its id cuts it out, and an AddPledge that passed its checks has its
\* pledge in the list when it returns.
\* ------------------------------------------------------------------------
Accepted(ps) == {ps[i] : i \in 1..Len(ps)}

CutsOut(p) ==
  \E c \in Callers :
    /\ calls[c].pc = "RemovePledge.cut"
    /\ calls'[c].pc = "return"
    /\ calls[c].id = PledgeID(p)

NoLostPledge ==
  \A p \in Accepted(pledges) : p \in Accepted(pledges') \/ CutsOut(p)

AcceptedIsStored ==
  \A c \in Callers :
    (calls[c].op = "AddPledge" /\ calls'[c].pc = "return" /\ calls'[c].err = NoError)
      => calls[c].pledge \in Accepted(pledges')

OneCallAtATime ==
  \A c \in Callers : calls[c].pc # "idle" => mutex = c

C25_SerializedCallers ==
  /\ [](NoSharedInput /\ OneCallAtATime)
  /\ [][NoLostPledge /\ AcceptedIsStored]_vars

C25_Witness ==
  /\ ret.op = "AddPledge"
  /\ ret.err = NoError
  /\ ret.arg = 2
  /\ calls[1].pc = "AddPledge.append"
  /\ Len(pledges) = 1

\* ------------------------------------------------------------------------
\* C26: project create run with --min-pledge m, m > 0, produces a project
\* whose minimum pledge amount is m in satoshis (m * 100000000); only
\* without the flag is it the default 10000.  The command converts m and
\* never stores it.
\* ------------------------------------------------------------------------
C26_MinPledgeFlag ==
  (ret.op = "project create" /\ ret.err = NoError) =>
    IF ret.arg.given /\ ret.arg.minPledge.num > 0
    THEN MinPledgeAmount(project) * ret.arg.minPledge.den
           = ret.arg.minPledge.num * SatoshisPerBSV
    ELSE MinPledgeAmount(project) = DefaultMinPledgeAmount

\* ------------------------------------------------------------------------
\* C27: Combine is idempotent and touches only the cache: a Combine that
\* directly follows a successful Combine succeeds with the same inputs and
\* the same output amounts (the surplus is added once), and every Combine
\* leaves the project, with its payout outputs and goal, the pledge list
\* and the pledged total as they were.
\* ------------------------------------------------------------------------
OutputAmounts(tx) == [k \in 1..Len(tx.Outputs) |-> tx.Outputs[k].Satoshis]

CombineAgain ==
  (ret.op = "Combine" /\ ret.err = NoError /\ ret'.op = "Combine")
    => /\ ret'.err = NoError
       /\ ret'.tx.Inputs = ret.tx.Inputs
       /\ OutputAmounts(ret'.tx) = OutputAmounts(ret.tx)
       /\ combined' = ret'.tx

CombineKeepsContract ==
  ret'.op = "Combine"
    => /\ ProjectOutputs(project') = ProjectOutputs(project)
       /\ GoalAmount(project') = GoalAmount(project)
       /\ pledges' = pledges
       /\ TotalPledgedOf(pledges') = TotalPledged

C27_CombineIdempotent == [][CombineAgain /\ CombineKeepsContract]_vars

C27_Witness ==
  /\ ret.op = "Combine"
  /\ ret.err = NoError
  /\ TotalPledged > GoalAmount(project)
  /\ combined = CombinedTx
  /\ combined.Outputs[1].Satoshis = Payouts[1].Amount + (TotalPledged - GoalAmount(project))

\* ------------------------------------------------------------------------
\* C28: the transaction of a successful Combine never spends the same
\* (sourceTxId, outputIndex) twice, in every contract state reached through
\* AddPledge and RemovePledge, also when one pledge was built from a list
\* of available inputs that names an input more than once.  AddPledge
\* compares a pledge with the accepted pledges only, never with itself.
\* ------------------------------------------------------------------------
SpendsOnce(tx) ==
  \A i, j \in 1..Len(tx.Inputs) :
    i < j => <<tx.Inputs[i].SourceTXID, tx.Inputs[i].SourceTxOutIndex>>
               # <<tx.Inputs[j].SourceTXID, tx.Inputs[j].SourceTxOutIndex>>

C28_NoDoubleSpend ==
  (ret.op = "Combine" /\ ret.err = NoError) => SpendsOnce(ret.tx)

\* ------------------------------------------------------------------------
\* C29: removing a pledge frees its inputs.  When RemovePledge succeeds on
\* pledge p, every valid pledge q of this project (p itself, or a signed
\* pledge over some of the same utxos) that shares an input with p and
\* with no pledge left in the list was refused with the duplicate-input
\* error before the removal and is acceptable after it; and an AddPledge
\* of p that directly follows the removal succeeds and appends p.
\* ------------------------------------------------------------------------
SharesInputWith(q, ps) ==
  \E i \in 1..Len(ps) : Outpoints(ps[i]) \cap Outpoints(q) # {}

FreedBy(p, ps) ==
  {q \in SharedPledges \cup {p} :
     Outpoints(q) \cap Outpoints(p) # {} /\ ~SharesInputWith(q, ps)}

RemoveFrees ==
  (ret'.op = "RemovePledge" /\ ret'.err = NoError) =>
    \A q \in FreedBy(held', pledges') :
      /\ AddPledgeError(q) = DuplicateInputError
      /\ AddPledgeError(q)' = NoError

ReAddSucceeds ==
  (ret.op = "RemovePledge" /\ ret.err = NoError
     /\ ret'.op = "AddPledge" /\ ret'.arg = 0)
    => ret'.err = NoError /\ pledges' = Append(pledges, held)

C29_RemoveFreesInputs == [][RemoveFrees /\ ReAddSucceeds]_vars

C29_Witness ==
  /\ ret.op = "RemovePledge"
  /\ ret.err = NoError
  /\ Len(pledges) = 1
  /\ \E q \in FreedBy(held, pledges) : q # held /\ AddPledgeError(q) = NoError

\* ------------------------------------------------------------------------
\* C30: Sign is all-or-nothing: when Sign fails, for want of a key or
\* because the signing primitive fails on an input, the call has given no
\* input an authorization proof, so the pledge and its serialized bytes
\* are what they were before the call.  The code signs input after input
\* and returns at the first failure, keeping the proofs already written.
\* ------------------------------------------------------------------------
FailedSignChangesNothing ==
  (ret'.op = "Sign" /\ ret'.err # NoError)
    => /\ held' = held
       /\ PledgeSerialize(held') = PledgeSerialize(held)

C30_SignAllOrNothing == [][FailedSignChangesNothing]_vars
====
